---- MODULE Spec2Model ----
(***************************************************************************)
(* Model of the Mocker class of @elastic/elasticsearch-mock (src/index.js). *)
(* The registry is a find-my-way router built with ignoreTrailingSlash;     *)
(* every route owns a store: the list of the patterns registered under it.  *)
(***************************************************************************)
EXTENDS Integers, Sequences, FiniteSets, TLC

VARIABLES kRouter, fnCount, last, pending

vars == <<kRouter, fnCount, last, pending>>

(* ------------------------------ bounds --------------------------------- *)

\* number of add calls of one run (each call registers one fresh resolver)
MaxAdds == 3

\* number of requests of the connection in flight at one time
MaxPending == 2

(* ------------------------------ values --------------------------------- *)

\* JavaScript undefined (an absent field), null, and plain objects
undefined == [t |-> "undefined"]
null == [t |-> "null"]
Obj(f) == [t |-> "object", v |-> f]

\* JavaScript strings and arrays
Str(s) == [t |-> "string", s |-> s]
Arr(a) == [t |-> "array", a |-> a]

\* get returns a resolver function or null; resolvers are numbered by
\* the add call that registered them
NoFn == 0

\* parsed JSON bodies
BodyFoo == Obj([query |-> "foo"])
BodyBar == Obj([query |-> "bar"])

\* parsed query maps
QsEmpty == Obj(<<>>)
QsPretty == Obj([pretty |-> Str("true")])
QsPrettyFalse == Obj([pretty |-> Str("false")])
QsPrettyHuman == Obj([pretty |-> Str("true"), human |-> Str("true")])

(* ------------------------------- paths --------------------------------- *)

\* A path is a sequence of tokens: "/" separates segments, ":p" and ":q"
\* are named parameters, "*" is the wildcard, "%2C" is an escaped comma.
Slash == "/"
ParamTokens == {":p", ":q"}
PathA == <<"/", "a">>
PathASlash == <<"/", "a", "/">>
PathB == <<"/", "b">>
PathParam == <<"/", ":p">>
PathStar == <<"*">>
PathComma == <<"/", "a", ",", "b">>
PathEncoded == <<"/", "a", "%2C", "b">>

\* String.prototype.indexOf('%') > -1
HasPercent(path) == \E i \in DOMAIN path : path[i] = "%2C"

\* decodeURIComponent: every escape sequence becomes the character it encodes
decodeURIComponent(path) ==
  [i \in DOMAIN path |-> IF path[i] = "%2C" THEN "," ELSE path[i]]

\* a workaround that leaves every path as it is
DecodePath_none(path) == path

\* the workaround of add and get: decode only a path that holds a '%'
DecodePath(path) == IF HasPercent(path) THEN decodeURIComponent(path) ELSE path

(* ------------------------------ router --------------------------------- *)

\* a router built without ignoreTrailingSlash
trimLastSlash_keep(path) == path

\* find-my-way with ignoreTrailingSlash: one trailing slash is dropped
trimLastSlash(path) ==
  IF Len(path) > 1 /\ path[Len(path)] = Slash
  THEN SubSeq(path, 1, Len(path) - 1)
  ELSE path

\* the segments of a path: the runs of tokens between its slashes (the
\* first one, before the leading slash, is empty)
RECURSIVE Segments(_)
Segments(path) ==
  IF path = <<>> THEN <<(<<>>)>>
  ELSE LET rest == Segments(Tail(path))
       IN IF Head(path) = Slash
          THEN <<(<<>>)>> \o rest
          ELSE <<(<<Head(path)>> \o Head(rest))>> \o Tail(rest)

IsParam(seg) == Len(seg) = 1 /\ seg[1] \in ParamTokens

\* a parameter that is compared like a literal segment
SegMatches_literal(tseg, seg) == tseg = seg

\* a template segment matches a concrete segment
SegMatches(tseg, seg) ==
  IF IsParam(tseg) THEN seg # <<>> ELSE tseg = seg

\* a router that compares the wildcard like a literal path
Matches_literalStar(template, path) ==
  IF template = PathStar THEN path = PathStar
  ELSE IF Head(path) # Slash THEN FALSE
  ELSE LET ts == Segments(template)
           ps == Segments(path)
       IN /\ Len(ts) = Len(ps)
          /\ \A i \in DOMAIN ts : SegMatches(ts[i], ps[i])

\* a route template matches a (trimmed) path
Matches(template, path) ==
  IF template = PathStar THEN TRUE
  ELSE IF Head(path) # Slash THEN FALSE
  ELSE LET ts == Segments(template)
           ps == Segments(path)
       IN /\ Len(ts) = Len(ps)
          /\ \A i \in DOMAIN ts : SegMatches(ts[i], ps[i])

\* the router prefers a static segment to a parameter and both to the wildcard
RECURSIVE Rank(_)
Rank(segs) ==
  IF segs = <<>> THEN 0
  ELSE (IF IsParam(Head(segs)) THEN 1 ELSE 0) + 2 * Rank(Tail(segs))

Priority(template) ==
  IF template = PathStar THEN 1000 ELSE Rank(Segments(template))

NoRoute == <<>>

\* Router.find(method, path): the key of the route that serves the path
find(router, method, path) ==
  LET p == trimLastSlash(path)
      cands == {k \in DOMAIN router : k[1] = method /\ Matches(k[2], p)}
  IN IF cands = {} THEN NoRoute
     ELSE CHOOSE k \in cands : \A o \in cands : Priority(k[2]) <= Priority(o[2])

\* Router.on(method, path, handler, store)
on(router, method, path, store) ==
  LET key == <<method, trimLastSlash(path)>>
  IN [k \in DOMAIN router \cup {key} |-> IF k = key THEN store ELSE router[k]]

\* Router.off(method, path)
off(router, method, path) ==
  LET key == <<method, trimLastSlash(path)>>
  IN [k \in DOMAIN router \ {key} |-> router[k]]

(* ------------------------------ Mocker --------------------------------- *)

\* a key count that overlooks the querystring field
NumKeys_noQuerystring(p) == 3 + (IF p.body # undefined THEN 1 ELSE 0)

\* Object.keys({ ...pattern, fn }).length
NumKeys(p) ==
  3 + (IF p.body # undefined THEN 1 ELSE 0)
    + (IF p.querystring # undefined THEN 1 ELSE 0)

\* a sort that leaves the store in insertion order
sort_none(store) == store

\* an unstable sort: elements of equal key count come out reversed
sort_unstable(store) ==
  LET Rev(q) == [i \in 1..Len(q) |-> q[Len(q) + 1 - i]]
  IN Rev(SelectSeq(store, LAMBDA p : NumKeys(p) = 5))
       \o Rev(SelectSeq(store, LAMBDA p : NumKeys(p) = 4))
       \o Rev(SelectSeq(store, LAMBDA p : NumKeys(p) = 3))

\* Array.prototype.sort with (a, b) => keys(b) - keys(a): stable, descending
sort(store) ==
  SelectSeq(store, LAMBDA p : NumKeys(p) = 5)
    \o SelectSeq(store, LAMBDA p : NumKeys(p) = 4)
    \o SelectSeq(store, LAMBDA p : NumKeys(p) = 3)

\* an equality that accepts extra keys on the request side
equal_loose(a, b) ==
  IF a.t = "object" /\ b.t = "object"
  THEN \A k \in DOMAIN b.v : k \in DOMAIN a.v /\ a.v[k] = b.v[k]
  ELSE a = b

\* fast-deep-equal: structural equality
equal(a, b) == a = b

\* Mocker.add for a pattern with a string method and a string path
add(router, pattern, fn) ==
  LET path == DecodePath(pattern.path)
      stored == [method |-> pattern.method, path |-> path,
                 body |-> pattern.body, querystring |-> pattern.querystring,
                 fn |-> fn]
      handler == find(router, pattern.method, path)
  IN IF handler # NoRoute
     THEN [router EXCEPT ![handler] = sort(Append(router[handler], stored))]
     ELSE on(router, pattern.method, path, <<stored>>)

\* a loop body whose last branch accepts only a request without a body
PatternAccepts_bodyless(p, params) ==
  IF p.body # undefined /\ p.querystring # undefined
  THEN equal(params.body, p.body) /\ equal(params.querystring, p.querystring)
  ELSE IF p.body # undefined /\ p.querystring = undefined
  THEN equal(params.body, p.body)
  ELSE IF p.body = undefined /\ p.querystring # undefined
  THEN equal(params.querystring, p.querystring)
  ELSE params.body = null

\* one iteration of the loop of Mocker.get over handler.store
PatternAccepts(p, params) ==
  IF p.body # undefined /\ p.querystring # undefined
  THEN equal(params.body, p.body) /\ equal(params.querystring, p.querystring)
  ELSE IF p.body # undefined /\ p.querystring = undefined
  THEN equal(params.body, p.body)
  ELSE IF p.body = undefined /\ p.querystring # undefined
  THEN equal(params.querystring, p.querystring)
  ELSE TRUE

RECURSIVE Scan(_, _)
Scan(store, params) ==
  IF store = <<>> THEN NoFn
  ELSE IF PatternAccepts(Head(store), params) THEN Head(store).fn
  ELSE Scan(Tail(store), params)

\* a get that answers with the first pattern of a route whatever it declares
get_first(router, params) ==
  LET path == DecodePath(params.path)
      handler == find(router, params.method, path)
  IN IF handler = NoRoute THEN NoFn ELSE Head(router[handler]).fn

\* Mocker.get
get(router, params) ==
  LET path == DecodePath(params.path)
      handler == find(router, params.method, path)
  IN IF handler = NoRoute THEN NoFn ELSE Scan(router[handler], params)

\* prepareResponse: the status code of the response to a request whose
\* resolver, if any, returns a plain payload
statusCode(resolver) == IF resolver = NoFn THEN 404 ELSE 200

\* Mocker.clear for a pattern with a string method and a string path
clear(router, pattern) == off(router, pattern.method, pattern.path)

\* a clearAll that leaves the routes in place
clearAll_keep(router) == router

\* Mocker.clearAll: Router.reset()
clearAll(router) == <<>>

(* ------------------------------ inputs --------------------------------- *)

Req(m, p, b, q) == [method |-> m, path |-> p, body |-> b, querystring |-> q]

\* patterns and requests that differ in body and querystring
MatchPatterns ==
  {Req("GET", PathA, b, q) : b \in {undefined, BodyFoo},
                             q \in {undefined, QsPretty, QsPrettyHuman}}
    \cup {Req("GET", PathB, undefined, undefined)}
MatchRequests ==
  {Req("GET", PathA, b, q) :
     b \in {null, BodyFoo, BodyBar},
     q \in {QsEmpty, QsPretty, QsPrettyFalse, QsPrettyHuman}}
    \cup {Req("GET", PathB, null, QsEmpty)}
MatchClears ==
  {Req("GET", p, undefined, undefined) : p \in {PathA, PathB}}

\* patterns and requests that differ in method and path
PathPatterns ==
  {Req(m, p, undefined, undefined) :
     m \in {"GET", "HEAD"},
     p \in {PathA, PathASlash, PathParam, PathStar, PathComma, PathEncoded}}
    \cup {Req("GET", PathA, BodyFoo, undefined)}
PathRequests ==
  {Req(m, p, null, QsEmpty) :
     m \in {"GET", "HEAD"},
     p \in {PathA, PathASlash, PathB, PathComma, PathEncoded}}
    \cup {Req("GET", PathA, BodyFoo, QsEmpty)}
PathClears ==
  {Req(m, p, undefined, undefined) :
     m \in {"GET", "HEAD"},
     p \in {PathA, PathASlash, PathParam, PathStar, PathComma, PathEncoded}}

NoParams == Req("", <<>>, undefined, undefined)

(* ------------------------------ actions -------------------------------- *)

Init ==
  /\ kRouter = <<>>
  /\ fnCount = 0
  /\ last = [op |-> "new", params |-> NoParams, ret |-> NoFn]
  /\ pending = <<>>

Add(pattern) ==
  /\ fnCount < MaxAdds
  /\ fnCount' = fnCount + 1
  /\ kRouter' = add(kRouter, pattern, fnCount + 1)
  /\ last' = [op |-> "add", params |-> pattern, ret |-> NoFn]
  /\ UNCHANGED pending

Get(params) ==
  /\ last' = [op |-> "get", params |-> params, ret |-> get(kRouter, params)]
  /\ UNCHANGED <<kRouter, fnCount, pending>>

Clear(pattern) ==
  /\ kRouter' = clear(kRouter, pattern)
  /\ last' = [op |-> "clear", params |-> NoParams, ret |-> NoFn]
  /\ UNCHANGED <<fnCount, pending>>

ClearAll ==
  /\ kRouter' = clearAll(kRouter)
  /\ last' = [op |-> "clearAll", params |-> NoParams, ret |-> NoFn]
  /\ UNCHANGED <<fnCount, pending>>

Next ==
  \/ \E pattern \in MatchPatterns : Add(pattern)
  \/ \E params \in MatchRequests : Get(params)
  \/ \E pattern \in MatchClears : Clear(pattern)
  \/ ClearAll

Spec == Init /\ [][Next]_vars

PathNext ==
  \/ \E pattern \in PathPatterns : Add(pattern)
  \/ \E params \in PathRequests : Get(params)
  \/ \E pattern \in PathClears : Clear(pattern)
  \/ ClearAll

PathSpec == Init /\ [][PathNext]_vars

(* --------------------- calls with any argument ------------------------ *)

\* the arguments of add, get and clear: a string or not, an array or not; a
\* resolver argument is a function (a positive number) or not (NoFn)
IsString(v) == v.t = "string"
isArray(v) == v.t = "array"
IsFunction(fn) == fn > 0

\* the messages of the ConfigurationError thrown by add, get and clear
NoError == "none"
MethodError == "The method is not defined"
PathError == "The path is not defined"
ResolverError == "The resolver function is not defined"

\* the outcome of a call: the registry it leaves and the error it threw
Ok(router) == [router |-> router, error |-> NoError]
Throw(router, message) == [router |-> router, error |-> message]

\* the pattern of a call whose method and path are strings
Plain(pattern) ==
  [method |-> pattern.method.s, path |-> pattern.path.s,
   body |-> pattern.body, querystring |-> pattern.querystring]

RECURSIVE addCall(_, _, _)
RECURSIVE addEach(_, _, _, _, _)
RECURSIVE clearCall(_, _)
RECURSIVE clearEach(_, _, _, _)

\* an expansion that registers the first value of an array only
addEach_first(router, pattern, key, values, fn) ==
  IF values = <<>> THEN Ok(router)
  ELSE addCall(router, [pattern EXCEPT ![key] = Head(values)], fn)

\* Mocker.add: the loop over the values of an array-valued method or path
addEach(router, pattern, key, values, fn) ==
  IF values = <<>> THEN Ok(router)
  ELSE LET r == addCall(router, [pattern EXCEPT ![key] = Head(values)], fn)
       IN IF r.error # NoError THEN r
          ELSE addEach(r.router, pattern, key, Tail(values), fn)

\* an add that checks the path before the method
addCall_pathFirst(router, pattern, fn) ==
  IF isArray(pattern.method)
  THEN addEach(router, pattern, "method", pattern.method.a, fn)
  ELSE IF isArray(pattern.path)
  THEN addEach(router, pattern, "path", pattern.path.a, fn)
  ELSE IF ~IsString(pattern.path) THEN Throw(router, PathError)
  ELSE IF ~IsString(pattern.method) THEN Throw(router, MethodError)
  ELSE IF ~IsFunction(fn) THEN Throw(router, ResolverError)
  ELSE Ok(add(router, Plain(pattern), fn))

\* Mocker.add
addCall(router, pattern, fn) ==
  IF isArray(pattern.method)
  THEN addEach(router, pattern, "method", pattern.method.a, fn)
  ELSE IF isArray(pattern.path)
  THEN addEach(router, pattern, "path", pattern.path.a, fn)
  ELSE IF ~IsString(pattern.method) THEN Throw(router, MethodError)
  ELSE IF ~IsString(pattern.path) THEN Throw(router, PathError)
  ELSE IF ~IsFunction(fn) THEN Throw(router, ResolverError)
  ELSE Ok(add(router, Plain(pattern), fn))

\* Mocker.get: the return value and the error thrown
getCall(router, params) ==
  IF ~IsString(params.method) THEN [ret |-> NoFn, error |-> MethodError]
  ELSE IF ~IsString(params.path) THEN [ret |-> NoFn, error |-> PathError]
  ELSE [ret |-> get(router, Plain(params)), error |-> NoError]

\* Mocker.clear: the loop over the values of an array-valued method or path
clearEach(router, pattern, key, values) ==
  IF values = <<>> THEN Ok(router)
  ELSE LET r == clearCall(router, [pattern EXCEPT ![key] = Head(values)])
       IN IF r.error # NoError THEN r
          ELSE clearEach(r.router, pattern, key, Tail(values))

\* a clear that checks the path before the method
clearCall_pathFirst(router, pattern) ==
  IF isArray(pattern.method)
  THEN clearEach(router, pattern, "method", pattern.method.a)
  ELSE IF isArray(pattern.path)
  THEN clearEach(router, pattern, "path", pattern.path.a)
  ELSE IF ~IsString(pattern.path) THEN Throw(router, PathError)
  ELSE IF ~IsString(pattern.method) THEN Throw(router, MethodError)
  ELSE Ok(clear(router, Plain(pattern)))

\* Mocker.clear
clearCall(router, pattern) ==
  IF isArray(pattern.method)
  THEN clearEach(router, pattern, "method", pattern.method.a)
  ELSE IF isArray(pattern.path)
  THEN clearEach(router, pattern, "path", pattern.path.a)
  ELSE IF ~IsString(pattern.method) THEN Throw(router, MethodError)
  ELSE IF ~IsString(pattern.path) THEN Throw(router, PathError)
  ELSE Ok(clear(router, Plain(pattern)))

\* arguments with missing fields and with arrays
GetHead == Arr(<<Str("GET"), Str("HEAD")>>)
PathsAB == Arr(<<Str(PathA), Str(PathB)>>)
Call(m, p) == Req(m, p, undefined, undefined)
CallPatterns ==
  {Call(m, p) : m \in {Str("GET"), undefined, GetHead},
                p \in {Str(PathA), undefined, PathsAB}}
\* the calls of add: a pattern and whether a resolver function comes with it
CallAdds ==
  (CallPatterns \X {TRUE})
    \cup ({Call(Str("GET"), Str(PathA)), Call(undefined, undefined),
           Call(GetHead, PathsAB)} \X {FALSE})
CallRequests ==
  {Req(Str(m), Str(p), null, QsEmpty) : m \in {"GET", "HEAD"}, p \in {PathA, PathB}}
    \cup {Req(undefined, Str(PathA), null, QsEmpty),
          Req(Str("GET"), undefined, null, QsEmpty),
          Req(undefined, undefined, null, QsEmpty),
          Req(GetHead, Str(PathA), null, QsEmpty)}
CallClears ==
  {Call(Str("GET"), Str(PathA)), Call(GetHead, PathsAB),
   Call(undefined, Str(PathA)), Call(Str("GET"), undefined),
   Call(undefined, undefined), Call(undefined, PathsAB)}

\* the resolver argument of a call: a fresh function, or nothing
AddCall(pattern, isFn) ==
  /\ fnCount < MaxAdds
  /\ fnCount' = fnCount + 1
  /\ LET fn == IF isFn THEN fnCount + 1 ELSE NoFn
         r == addCall(kRouter, pattern, fn)
     IN /\ kRouter' = r.router
        /\ last' = [op |-> "add", params |-> pattern, ret |-> fn,
                    error |-> r.error]
  /\ UNCHANGED pending

GetCall(params) ==
  /\ LET r == getCall(kRouter, params)
     IN last' = [op |-> "get", params |-> params, ret |-> r.ret,
                 error |-> r.error]
  /\ UNCHANGED <<kRouter, fnCount, pending>>

ClearCall(pattern) ==
  /\ LET r == clearCall(kRouter, pattern)
     IN /\ kRouter' = r.router
        /\ last' = [op |-> "clear", params |-> pattern, ret |-> NoFn,
                    error |-> r.error]
  /\ UNCHANGED <<fnCount, pending>>

CallNext ==
  \/ \E call \in CallAdds : AddCall(call[1], call[2])
  \/ \E params \in CallRequests : GetCall(params)
  \/ \E pattern \in CallClears : ClearCall(pattern)
  \/ ClearAll

CallSpec == Init /\ [][CallNext]_vars

(* ----------------------- patterns that name an api --------------------- *)

\* the catalog of high-level apis: for each name the paths and the methods
\* of the api, both arrays
pathsDb ==
  [name \in {"count"} |-> [path |-> PathsAB, method |-> GetHead]]

\* a pattern with an api field (undefined when it names none)
ApiCall(api, m, p) ==
  [api |-> api, method |-> m, path |-> p,
   body |-> undefined, querystring |-> undefined]
ApiError(name) == "The api '" \o name \o "' does not exist"

\* an add that looks at the api after the method, the path and the resolver
addApi_checksFirst(router, pattern, fn) ==
  IF pattern.api = undefined
  THEN addCall(router, Req(pattern.method, pattern.path,
                           pattern.body, pattern.querystring), fn)
  ELSE IF ~IsString(pattern.method) /\ ~isArray(pattern.method)
  THEN Throw(router, MethodError)
  ELSE IF ~IsString(pattern.path) /\ ~isArray(pattern.path)
  THEN Throw(router, PathError)
  ELSE IF ~IsFunction(fn) THEN Throw(router, ResolverError)
  ELSE IF pattern.api.s \notin DOMAIN pathsDb
  THEN Throw(router, ApiError(pattern.api.s))
  ELSE addCall(router, Req(pathsDb[pattern.api.s].method,
                           pathsDb[pattern.api.s].path,
                           pattern.body, pattern.querystring), fn)

\* Mocker.add of the release that knows apis: a pattern that names an api
\* is replaced by the paths and methods of the catalog, then added
addApi(router, pattern, fn) ==
  IF pattern.api = undefined
  THEN addCall(router, Req(pattern.method, pattern.path,
                           pattern.body, pattern.querystring), fn)
  ELSE IF pattern.api.s \notin DOMAIN pathsDb
  THEN Throw(router, ApiError(pattern.api.s))
  ELSE addCall(router, Req(pathsDb[pattern.api.s].method,
                           pathsDb[pattern.api.s].path,
                           pattern.body, pattern.querystring), fn)

\* calls of add with and without an api, a method, a path and a resolver
ApiAdds ==
  {<<ApiCall(Str("ifno"), undefined, undefined), FALSE>>,
   <<ApiCall(Str("ifno"), Str("GET"), Str(PathA)), TRUE>>,
   <<ApiCall(Str("count"), undefined, undefined), TRUE>>,
   <<ApiCall(Str("count"), undefined, undefined), FALSE>>,
   <<ApiCall(undefined, Str("GET"), Str(PathA)), TRUE>>,
   <<ApiCall(undefined, Str("HEAD"), Str(PathB)), TRUE>>,
   <<ApiCall(undefined, undefined, Str(PathA)), TRUE>>}
ApiRequests ==
  {Req(Str(m), Str(p), null, QsEmpty) : m \in {"GET", "HEAD"}, p \in {PathA, PathB}}

AddApi(pattern, isFn) ==
  /\ fnCount < MaxAdds
  /\ fnCount' = fnCount + 1
  /\ LET fn == IF isFn THEN fnCount + 1 ELSE NoFn
         r == addApi(kRouter, pattern, fn)
     IN /\ kRouter' = r.router
        /\ last' = [op |-> "add", params |-> pattern, ret |-> fn,
                    error |-> r.error]
  /\ UNCHANGED pending

ApiNext ==
  \/ \E call \in ApiAdds : AddApi(call[1], call[2])
  \/ \E params \in ApiRequests : GetCall(params)
  \/ ClearAll

ApiSpec == Init /\ [][ApiNext]_vars

(* ------------------------- arrays that fail ---------------------------- *)

\* arrays with a value that is not a string after a valid one
GetThenNothing == Arr(<<Str("GET"), undefined>>)
PathAThenNothing == Arr(<<Str(PathA), undefined>>)

\* the calls of add: valid patterns, a pattern without a method, arrays that
\* end in an invalid value, and a valid pattern without a resolver
AtomAdds ==
  ({Call(Str("GET"), Str(PathA)), Call(Str("HEAD"), Str(PathB)),
    Call(undefined, Str(PathA)), Call(GetThenNothing, Str(PathA)),
    Call(Str("HEAD"), PathAThenNothing)} \X {TRUE})
    \cup {<<Call(GetHead, Str(PathA)), FALSE>>}
AtomRequests ==
  {Req(Str(m), Str(p), null, QsEmpty) : m \in {"GET", "HEAD"}, p \in {PathA, PathB}}
AtomClears ==
  {Call(Str("GET"), Str(PathA)), Call(Str("GET"), undefined),
   Call(GetThenNothing, Str(PathA)), Call(Str("HEAD"), PathAThenNothing)}

AtomNext ==
  \/ \E call \in AtomAdds : AddCall(call[1], call[2])
  \/ \E params \in AtomRequests : GetCall(params)
  \/ \E pattern \in AtomClears : ClearCall(pattern)
  \/ ClearAll

AtomSpec == Init /\ [][AtomNext]_vars

(* ------------------------- clearing patterns --------------------------- *)

\* patterns of two methods on a literal path, a named parameter and a path
\* with an escaped comma, one of them with a body; clear gets a method and a
\* path, once with the body of the pattern it is meant to remove
ClearPatterns ==
  {Req(Str("GET"), Str(p), undefined, undefined) :
     p \in {PathA, PathParam, PathEncoded}}
    \cup {Req(Str("GET"), Str(PathA), BodyFoo, undefined),
          Req(Str("HEAD"), Str(PathA), undefined, undefined)}
ClearRequests ==
  {Req(Str("GET"), Str(p), b, QsEmpty) :
     p \in {PathA, PathB, PathEncoded}, b \in {null, BodyFoo}}
    \cup {Req(Str("HEAD"), Str(PathA), null, QsEmpty)}
ClearTargets ==
  {Call(Str("GET"), Str(p)) : p \in {PathA, PathParam, PathEncoded, PathComma}}
    \cup {Call(Str("HEAD"), Str(PathA)),
          Req(Str("GET"), Str(PathA), BodyFoo, undefined)}

ClearNext ==
  \/ \E pattern \in ClearPatterns : AddCall(pattern, TRUE)
  \/ \E params \in ClearRequests : GetCall(params)
  \/ \E pattern \in ClearTargets : ClearCall(pattern)
  \/ ClearAll

ClearSpec == Init /\ [][ClearNext]_vars

(* ----------------------------- connection ------------------------------ *)

\* what a resolver returns: a plain object, a string, null, a ResponseError
\* carrying a status code and a body, or another client error
ResponseError(code, body) ==
  [t |-> "ResponseError", statusCode |-> code, body |-> body]
TimeoutError == [t |-> "TimeoutError"]
StatusOk == Obj([status |-> "ok"])
TextOk == Str(<<"ok">>)
ServerError == ResponseError(500, Obj([errors |-> Obj(<<>>), status |-> 500]))
BadRequest == ResponseError(400, Str(<<"bad request">>))
Payloads == {StatusOk, TextOk, null, ServerError, BadRequest, TimeoutError}

\* a resolver that throws instead of returning
Throws(error) == [t |-> "throw", error |-> error]
Boom == [t |-> "Error", message |-> "boom"]

\* payload instanceof ResponseError, payload instanceof ElasticsearchClientError
IsResponseError(payload) == payload.t = "ResponseError"
IsClientError(payload) ==
  payload.t \in {"ResponseError", "TimeoutError", "ConnectionError",
                 "RequestAbortedError"}

\* errors of the JavaScript runtime and of zlib
SyntaxError == [t |-> "SyntaxError"]
TypeError == [t |-> "TypeError"]
HeaderCheck == "incorrect header check"
ReadFailed == "read failed"

\* strings of a request body: the JSON text of a value (JSON.stringify), a
\* text made of lines each ended by a newline, a text that is not JSON; the
\* empty string is the text of no line
stringify(value) == [t |-> "json", v |-> value]
Lines(l) == [t |-> "lines", l |-> l]
Malformed == [t |-> "malformed"]
EmptyString == Lines(<<>>)

\* a + b on strings
concat(a, b) ==
  IF a = EmptyString THEN b
  ELSE IF b = EmptyString THEN a
  ELSE IF a.t = "lines" /\ b.t = "lines" THEN Lines(a.l \o b.l)
  ELSE Malformed

\* JSON.parse(text): the value of a text holding one JSON document (a
\* newline after it is white space), a SyntaxError for any other text
parse(text) ==
  IF text.t = "json" THEN text.v
  ELSE IF text.t = "lines" /\ Len(text.l) = 1 /\ text.l[1].t = "json"
  THEN text.l[1].v
  ELSE SyntaxError

\* text.split(/\n|\n\r/).filter(Boolean).map(l => JSON.parse(l))
parseLines(text) ==
  LET lines == IF text.t = "lines" THEN text.l ELSE <<text>>
  IN IF \E i \in DOMAIN lines : lines[i].t # "json" THEN SyntaxError
     ELSE Arr([i \in DOMAIN lines |-> lines[i].v])

\* a Buffer holds the bytes of a string or the gzip of a string
Gzip(text) == [t |-> "gzip", of |-> text]
Buffer(bytes) == [t |-> "buffer", bytes |-> bytes]
IsBuffer(body) == body.t = "buffer"

\* buffer.toString(): gzip bytes do not read as JSON text
toString(body) ==
  IF ~IsBuffer(body) THEN body
  ELSE IF body.bytes.t = "gzip" THEN Malformed
  ELSE body.bytes

\* zlib gunzip of a buffer or a string: the text, or an error message
gunzip(body) ==
  LET bytes == IF IsBuffer(body) THEN body.bytes ELSE body
  IN IF bytes.t = "gzip" THEN [error |-> NoError, text |-> bytes.of]
     ELSE [error |-> HeaderCheck, text |-> EmptyString]

\* a readable stream: the chunks it emits, then 'end' or 'error' (a stream
\* that is not destroyed on error can emit 'end' after 'error')
Stream(chunks, ending) == [t |-> "stream", chunks |-> chunks, ending |-> ending]
isStream(body) == body.t = "stream"

\* the events that wait for a request in flight
Immediate == [e |-> "immediate"]
Gunzipped(body) == [e |-> "gunzip", body |-> body]
Data(chunk) == [e |-> "data", chunk |-> chunk]
End == [e |-> "end"]
Failed(message) == [e |-> "error", message |-> message]

\* the events of the stream the listeners of normalizeParams sit on: the
\* body itself or, for a compressed request, body.pipe(createGunzip());
\* pipe forwards the data and the end of the source, not its errors
RECURSIVE Inflated(_)
Inflated(chunks) ==
  IF chunks = <<>> THEN <<>>
  ELSE IF gunzip(Head(chunks)).error # NoError
  THEN <<Failed(gunzip(Head(chunks)).error)>>
  ELSE <<Data(gunzip(Head(chunks)).text)>> \o Inflated(Tail(chunks))
StreamEvents(body, compression) ==
  LET Ending(kinds) ==
        [i \in DOMAIN kinds |->
           IF kinds[i] = "end" THEN End ELSE Failed(ReadFailed)]
      data == Inflated(body.chunks)
  IN IF ~compression
     THEN [i \in DOMAIN body.chunks |-> Data(toString(body.chunks[i]))]
            \o Ending(body.ending)
     ELSE IF data # <<>> /\ data[Len(data)].e = "error" THEN data
     ELSE data \o Ending(SelectSeq(body.ending, LAMBDA k : k = "end"))

\* querystring.parse: the map of a list of key=value pairs; a key written
\* several times maps to the array of its values
querystringParse(pairs) ==
  LET keys == {pairs[i][1] : i \in DOMAIN pairs}
      At(k) == SelectSeq(pairs, LAMBDA kv : kv[1] = k)
  IN Obj([k \in keys |->
            IF Len(At(k)) = 1 THEN Str(At(k)[1][2])
            ELSE Arr([i \in 1..Len(At(k)) |-> Str(At(k)[i][2])])])

\* the request the transport hands to the connection: the query string as
\* written, the body (undefined when there is none) and the headers
\* Content-Encoding and Content-Type
RawWith(m, p, q, b, encoding, type) ==
  [method |-> m, path |-> p, querystring |-> q, body |-> b,
   headers |-> [encoding |-> encoding, type |-> type]]
Raw(m, p, q, b) == RawWith(m, p, q, b, "", "")
NdJson == "application/x-ndjson"

\* a falsy body: none, null or the empty string
Falsy(body) == body = undefined \/ body = null \/ body = EmptyString

\* the body of a text whose content type is newline-delimited or not; split
\* is not a method of a Buffer
parseBody(body, type) ==
  IF type = NdJson
  THEN IF IsBuffer(body) THEN TypeError ELSE parseLines(body)
  ELSE parse(toString(body))
IsThrown(value) == value = SyntaxError \/ value = TypeError

\* normalizeParams up to its return: the normalized request so far, the
\* error it throws (a body parsed on the spot) and the events it waits for
normalizeParams(params) ==
  LET normalized ==
        [method |-> params.method,
         path |-> params.path,
         body |-> null,
         querystring |-> querystringParse(params.querystring)]
      compression == params.headers.encoding = "gzip"
      type == params.headers.type
  IN IF Falsy(params.body)
     THEN [thrown |-> undefined, params |-> normalized,
           events |-> <<Immediate>>]
     ELSE IF isStream(params.body)
     THEN [thrown |-> undefined,
           params |-> [normalized EXCEPT !.body = EmptyString],
           events |-> StreamEvents(params.body, compression)]
     ELSE IF compression
     THEN [thrown |-> undefined, params |-> normalized,
           events |-> <<Gunzipped(params.body)>>]
     ELSE IF IsThrown(parseBody(params.body, type))
     THEN [thrown |-> parseBody(params.body, type), params |-> normalized,
           events |-> <<>>]
     ELSE [thrown |-> undefined,
           params |-> [normalized EXCEPT !.body = parseBody(params.body, type)],
           events |-> <<Immediate>>]

\* the outcome of a request: resolve(response) or reject(error)
Resolve(code, payload) ==
  [outcome |-> "response",
   statusCode |-> code,
   body |-> IF IsString(payload) THEN payload ELSE stringify(payload),
   contentType |-> IF IsString(payload) THEN "text/plain;utf=8"
                   ELSE "application/json;utf=8",
   error |-> undefined]
Reject(error) ==
  [outcome |-> "error", statusCode |-> 0, body |-> undefined,
   contentType |-> "", error |-> error]

\* an exception nobody catches: neither resolve nor reject is called
Uncaught(error) ==
  [outcome |-> "none", statusCode |-> 0, body |-> undefined,
   contentType |-> "", error |-> error]

\* the params object after Mocker.get has run on it: get overwrites the
\* path with the decoded one
Decoded(params) == [params EXCEPT !.path = DecodePath(@)]

\* the payload of the 404 response
NotFound(params) ==
  Obj([error |-> "Mock not found", params |-> Decoded(params)])

\* a synthesis that serializes every payload, strings included
Synthesize_json(resolver, params, returned) ==
  IF resolver = NoFn THEN Resolve(404, NotFound(params))
  ELSE IF IsResponseError(returned)
  THEN Resolve(returned.statusCode, returned.body)
  ELSE IF IsClientError(returned) THEN Reject(returned)
  ELSE [Resolve(200, returned) EXCEPT
          !.body = stringify(returned),
          !.contentType = "application/json;utf=8"]

\* a synthesis that rejects with every client error, ResponseError included
Synthesize_rejectAll(resolver, params, returned) ==
  IF resolver = NoFn THEN Resolve(404, NotFound(params))
  ELSE IF IsClientError(returned) THEN Reject(returned)
  ELSE Resolve(200, returned)

\* a synthesis that turns every client error into a response
Synthesize_respondAll(resolver, params, returned) ==
  IF resolver = NoFn THEN Resolve(404, NotFound(params))
  ELSE IF IsClientError(returned) THEN Resolve(500, returned)
  ELSE Resolve(200, returned)

\* a payload without a JSON text: JSON.stringify throws on an object that
\* holds itself, and gives undefined for undefined, on which
\* Buffer.byteLength throws
Cyclic == [t |-> "cyclic"]
HasText(payload) == payload # Cyclic /\ payload # undefined

\* prepareResponse from the resolver on: the response or the error built
\* from what the resolver returned; what the resolver throws, and what
\* JSON.stringify and Buffer.byteLength throw, leaves prepareResponse, which
\* runs in a callback of the event loop
Synthesize(resolver, params, returned) ==
  IF resolver = NoFn THEN Resolve(404, NotFound(params))
  ELSE IF returned.t = "throw" THEN Uncaught(returned.error)
  ELSE IF IsResponseError(returned)
  THEN IF HasText(returned.body)
       THEN Resolve(returned.statusCode, returned.body)
       ELSE Uncaught(TypeError)
  ELSE IF IsClientError(returned) THEN Reject(returned)
  ELSE IF HasText(returned) THEN Resolve(200, returned)
  ELSE Uncaught(TypeError)

\* what a run of prepareResponse did: whether it called mocker.get, the
\* resolver it got, and the outcome it handed to resolve or reject
Skipped(result) == [consulted |-> FALSE, resolver |-> NoFn, result |-> result]
Asked(resolver, result) ==
  [consulted |-> TRUE, resolver |-> resolver, result |-> result]

\* a prepareResponse that looks at the error before the abort flag
prepareResponse_errorFirst(router, request, returned) ==
  IF request.error # NoError
  THEN Skipped(Reject([t |-> "ConnectionError", message |-> request.error]))
  ELSE IF request.aborted THEN Skipped(Reject([t |-> "RequestAbortedError"]))
  ELSE Asked(get(router, request.params),
             Synthesize(get(router, request.params), request.params, returned))

\* a prepareResponse that answers from the registry as request() saw it
prepareResponse_snapshot(router, request, returned) ==
  IF request.aborted THEN Skipped(Reject([t |-> "RequestAbortedError"]))
  ELSE IF request.error # NoError
  THEN Skipped(Reject([t |-> "ConnectionError", message |-> request.error]))
  ELSE Asked(request.seen, Synthesize(request.seen, request.params, returned))

\* a prepareResponse that looks at the abort flag after the resolver ran
prepareResponse_abortLast(router, request, returned) ==
  IF request.error # NoError /\ ~request.aborted
  THEN Skipped(Reject([t |-> "ConnectionError", message |-> request.error]))
  ELSE IF request.aborted
  THEN Asked(get(router, request.params), Reject([t |-> "RequestAbortedError"]))
  ELSE Asked(get(router, request.params),
             Synthesize(get(router, request.params), request.params, returned))

\* prepareResponse(error, params) of a request in flight
prepareResponse(router, request, returned) ==
  IF request.aborted THEN Skipped(Reject([t |-> "RequestAbortedError"]))
  ELSE IF request.error # NoError
  THEN Skipped(Reject([t |-> "ConnectionError", message |-> request.error]))
  ELSE Asked(get(router, request.params),
             Synthesize(get(router, request.params), request.params, returned))

\* a caller that takes every outcome handed to it
settle_every(outcomes, r) ==
  IF r.outcome = "none" THEN outcomes ELSE outcomes + 1

\* the promise of a request: the first resolve or reject settles it, a
\* later one is ignored (outcomes counts what the caller received)
settle(outcomes, r) ==
  IF r.outcome = "none" \/ outcomes > 0 THEN outcomes ELSE 1

\* patterns, outgoing requests and lookups of the connection
ConnPatterns ==
  {Req("GET", PathA, undefined, undefined), Req("GET", PathA, BodyFoo, undefined)}
ConnRequests ==
  {Raw("GET", PathA, <<>>, undefined),
   Raw("GET", PathA, <<>>, stringify(BodyFoo)),
   Raw("GET", PathB, <<<<"pretty", "true">>>>, undefined)}
ConnGets ==
  {Req("GET", PathA, null, QsEmpty), Req("GET", PathA, BodyFoo, QsEmpty),
   Req("GET", PathB, null, QsPretty)}
ConnClears == {Req("GET", PathA, undefined, undefined)}

\* the sequence without its i-th element
Remove(seq, i) == [j \in 1..(Len(seq) - 1) |-> IF j < i THEN seq[j] ELSE seq[j + 1]]

\* MockConnection.request: the abort listener is registered, normalizeParams
\* runs up to its return; what it throws rejects the promise on the spot,
\* otherwise the request waits for its events; raw is the request as it
\* was handed over, seen is what the caller saw in the registry when it
\* made the call (NoFn when it did not look)
Send(params, seen) ==
  /\ Len(pending) < MaxPending
  /\ LET n == normalizeParams(params)
     IN IF n.thrown # undefined
        THEN /\ pending' = pending
             /\ last' = [op |-> "request", params |-> NoParams, ret |-> NoFn,
                         raw |-> params,
                         outcome |-> "error", error |-> n.thrown]
        ELSE /\ pending' = Append(pending,
                             [params |-> n.params,
                              raw |-> params,
                              type |-> params.headers.type,
                              events |-> n.events,
                              error |-> NoError,
                              aborted |-> FALSE,
                              listening |-> TRUE,
                              outcomes |-> 0,
                              seen |-> seen])
             /\ last' = [op |-> "request", params |-> NoParams, ret |-> NoFn,
                         raw |-> params,
                         outcome |-> "pending", error |-> undefined]
  /\ UNCHANGED <<kRouter, fnCount>>

\* a request of a caller that does not look at the registry
Request(params) == Send(params, NoFn)

\* a request of a caller that first looks the request up with Mocker.get
Watched(params) == Send(params, get(kRouter, normalizeParams(params).params))

\* an abort listener whose flag is shared by the requests in flight
Abort_shared(i) ==
  /\ i \in DOMAIN pending
  /\ pending[i].listening
  /\ ~pending[i].aborted
  /\ pending' = [j \in DOMAIN pending |->
                   IF pending[j].listening
                   THEN [pending[j] EXCEPT !.aborted = TRUE]
                   ELSE pending[j]]
  /\ last' = [op |-> "abort", params |-> NoParams, ret |-> NoFn]
  /\ UNCHANGED <<kRouter, fnCount>>

\* the abort listener of a request in flight: aborted = true
Abort(i) ==
  /\ i \in DOMAIN pending
  /\ pending[i].listening
  /\ ~pending[i].aborted
  /\ pending' = [pending EXCEPT ![i].aborted = TRUE]
  /\ last' = [op |-> "abort", params |-> NoParams, ret |-> NoFn]
  /\ UNCHANGED <<kRouter, fnCount>>

\* a prepareResponse that takes the matched pattern's route off the registry
PrepareResponse_consume(returned) ==
  /\ pending # <<>>
  /\ last' = [op |-> "response", params |-> Head(pending).params,
              ret |-> get(kRouter, Head(pending).params)]
  /\ pending' = Tail(pending)
  /\ kRouter' = clear(kRouter, Head(pending).params)
  /\ UNCHANGED fnCount

\* prepareResponse runs for the i-th request in flight, whose fields are
\* those of request by now: the listener is removed, the resolver, if one
\* matches and the request is still wanted, returns some value or throws; a
\* request with no event left whose promise is settled is over
Callback(i, request, returned) ==
  LET done == prepareResponse(kRouter, request, returned)
      consulted == done.consulted
      resolver == done.resolver
      r == done.result
      after == [request EXCEPT !.events = Tail(@),
                               !.error = NoError,
                               !.listening = FALSE,
                               !.outcomes = settle(@, r)]
  IN /\ last' = [op |-> "response",
                 params |-> request.params,
                 raw |-> request.raw,
                 aborted |-> request.aborted,
                 consulted |-> consulted,
                 ret |-> resolver,
                 returned |-> IF resolver # NoFn THEN returned ELSE undefined,
                 args |-> IF resolver # NoFn THEN Decoded(request.params)
                          ELSE undefined,
                 failure |-> request.error,
                 again |-> ~request.listening,
                 seen |-> request.seen,
                 outcome |-> r.outcome,
                 statusCode |-> r.statusCode,
                 body |-> r.body,
                 contentType |-> r.contentType,
                 error |-> r.error,
                 outcomes |-> after.outcomes]
     /\ pending' = IF after.events = <<>> /\ after.outcomes > 0
                   THEN Remove(pending, i)
                   ELSE [pending EXCEPT ![i] = after]
     /\ UNCHANGED <<kRouter, fnCount>>

\* an exception thrown while the body is parsed in a callback: nobody
\* catches it and prepareResponse is not called
ThrowInCallback(i, error) ==
  LET after == [pending[i] EXCEPT !.events = Tail(@)]
  IN /\ last' = [op |-> "normalize", params |-> NoParams, ret |-> NoFn,
                 raw |-> pending[i].raw,
                 outcome |-> "none", error |-> error,
                 outcomes |-> after.outcomes]
     /\ pending' = IF after.events = <<>> /\ after.outcomes > 0
                   THEN Remove(pending, i)
                   ELSE [pending EXCEPT ![i] = after]
     /\ UNCHANGED <<kRouter, fnCount>>

\* the callback of setImmediate: callbacks run in the order they were queued
PrepareResponse(returned) ==
  \E i \in DOMAIN pending :
    /\ pending[i].events # <<>> /\ Head(pending[i].events).e = "immediate"
    /\ \A j \in 1..(i - 1) :
         IF pending[j].events = <<>> THEN TRUE
         ELSE Head(pending[j].events).e # "immediate"
    /\ Callback(i, pending[i], returned)

\* the callback of zlib gunzip for a compressed buffer or string
Gunzip(i, returned) ==
  /\ i \in DOMAIN pending
  /\ pending[i].events # <<>> /\ Head(pending[i].events).e = "gunzip"
  /\ LET g == gunzip(Head(pending[i].events).body)
         parsed == parseBody(g.text, pending[i].type)
     IN IF g.error # NoError
        THEN Callback(i, [pending[i] EXCEPT !.error = g.error], returned)
        ELSE IF IsThrown(parsed) THEN ThrowInCallback(i, parsed)
        ELSE Callback(i, [pending[i] EXCEPT !.params.body = parsed], returned)

\* the 'data' listener: normalized.body += chunk
StreamData(i) ==
  /\ i \in DOMAIN pending
  /\ pending[i].events # <<>> /\ Head(pending[i].events).e = "data"
  /\ pending' = [pending EXCEPT
                   ![i].events = Tail(@),
                   ![i].params.body = concat(@, Head(pending[i].events).chunk)]
  /\ last' = [op |-> "data", params |-> NoParams, ret |-> NoFn]
  /\ UNCHANGED <<kRouter, fnCount>>

\* the 'end' listener: the body read so far is parsed
StreamEnd(i, returned) ==
  /\ i \in DOMAIN pending
  /\ pending[i].events # <<>> /\ Head(pending[i].events).e = "end"
  /\ LET parsed == parseBody(pending[i].params.body, pending[i].type)
     IN IF IsThrown(parsed) THEN ThrowInCallback(i, parsed)
        ELSE Callback(i, [pending[i] EXCEPT !.params.body = parsed], returned)

\* the 'error' listener: callback(err, null)
StreamError(i, returned) ==
  /\ i \in DOMAIN pending
  /\ pending[i].events # <<>> /\ Head(pending[i].events).e = "error"
  /\ Callback(i, [pending[i] EXCEPT !.error = Head(pending[i].events).message],
              returned)

ConnNext ==
  \/ \E pattern \in ConnPatterns : Add(pattern)
  \/ \E params \in ConnGets : Get(params)
  \/ \E pattern \in ConnClears : Clear(pattern)
  \/ ClearAll
  \/ \E params \in ConnRequests : Request(params)
  \/ \E returned \in Payloads : PrepareResponse(returned)

ConnSpec == Init /\ [][ConnNext]_vars

(* --------------------------- abort and events -------------------------- *)

\* one pattern; requests without a body, with a streamed body, with a
\* stream that emits 'error' and then still ends, and with a body that is
\* said to be gzip and is not
FooChunk == Buffer(stringify(BodyFoo))
AbortPatterns == {Req("GET", PathA, undefined, undefined)}
AbortRequests ==
  {Raw("GET", PathA, <<>>, undefined),
   Raw("GET", PathA, <<>>, Stream(<<FooChunk>>, <<"end">>)),
   Raw("GET", PathA, <<>>, Stream(<<FooChunk>>, <<"error", "end">>)),
   RawWith("GET", PathA, <<>>, FooChunk, "gzip", ""),
   Raw("GET", PathB, <<<<"pretty", "true">>>>, stringify(BodyBar))}
AbortPayloads == {StatusOk}

AbortNext ==
  \/ \E pattern \in AbortPatterns : Add(pattern)
  \/ \E params \in AbortRequests : Request(params)
  \/ \E i \in 1..MaxPending : Abort(i)
  \/ \E returned \in AbortPayloads : PrepareResponse(returned)
  \/ \E i \in 1..MaxPending, returned \in AbortPayloads : Gunzip(i, returned)
  \/ \E i \in 1..MaxPending : StreamData(i)
  \/ \E i \in 1..MaxPending, returned \in AbortPayloads : StreamEnd(i, returned)
  \/ \E i \in 1..MaxPending, returned \in AbortPayloads : StreamError(i, returned)

AbortSpec == Init /\ [][AbortNext]_vars

(* ------------------- registry changes during a request ----------------- *)

\* two routes; every caller looks its request up before sending it
RacePatterns ==
  {Req("GET", PathA, undefined, undefined), Req("GET", PathB, undefined, undefined)}
RaceRequests == {Raw("GET", PathA, <<>>, undefined), Raw("GET", PathB, <<>>, undefined)}
RaceClears == {Req("GET", PathA, undefined, undefined)}
RacePayloads == {StatusOk}

RaceNext ==
  \/ \E pattern \in RacePatterns : Add(pattern)
  \/ \E pattern \in RaceClears : Clear(pattern)
  \/ ClearAll
  \/ \E params \in RaceRequests : Watched(params)
  \/ \E returned \in RacePayloads : PrepareResponse(returned)

RaceSpec == Init /\ [][RaceNext]_vars

(* ---------------------------- request bodies --------------------------- *)

\* the two documents of a bulk request as newline-delimited text
FooBar == Lines(<<stringify(BodyFoo), stringify(BodyBar)>>)
JsonType == "application/json"

\* one content in its five forms: a string, a buffer, a gzip buffer, a
\* stream and a gzip stream
Forms(m, p, text, type) ==
  {RawWith(m, p, <<>>, text, "", type),
   RawWith(m, p, <<>>, Buffer(text), "", type),
   RawWith(m, p, <<>>, Buffer(Gzip(text)), "gzip", type),
   RawWith(m, p, <<>>, Stream(<<Buffer(text)>>, <<"end">>), "", type),
   RawWith(m, p, <<>>, Stream(<<Buffer(Gzip(text))>>, <<"end">>), "gzip", type)}

\* bodies that do not normalize: text that is not JSON, bytes that are not
\* gzip under Content-Encoding: gzip, a stream whose source fails
Broken(m, p) ==
  {RawWith(m, p, <<>>, Malformed, "", JsonType),
   RawWith(m, p, <<>>, Buffer(Gzip(Malformed)), "gzip", JsonType),
   RawWith(m, p, <<>>, Stream(<<Buffer(Malformed)>>, <<"end">>), "", JsonType),
   RawWith(m, p, <<>>, Buffer(stringify(BodyFoo)), "gzip", JsonType),
   RawWith(m, p, <<>>, Stream(<<FooChunk>>, <<"end">>), "gzip", JsonType),
   RawWith(m, p, <<>>, Stream(<<FooChunk>>, <<"error">>), "", JsonType),
   RawWith(m, p, <<>>, Stream(<<Buffer(Gzip(stringify(BodyFoo)))>>, <<"error">>),
           "gzip", JsonType)}

\* patterns on a body, on a bulk body and on a path with a comma; requests
\* in every form, with a repeated query key and with an escaped comma
BodyPatterns ==
  {Req("POST", PathA, BodyFoo, undefined),
   Req("POST", PathA, Arr(<<BodyFoo, BodyBar>>), undefined),
   Req("GET", PathComma, undefined, undefined)}
BodyRequests ==
  Forms("POST", PathA, stringify(BodyFoo), JsonType)
    \cup Forms("POST", PathA, FooBar, NdJson)
    \cup Broken("POST", PathA)
    \cup {Raw("GET", PathEncoded, <<>>, undefined),
          Raw("GET", PathComma, <<<<"filter", "a">>, <<"filter", "b">>>>, undefined)}
BodyPayloads == {StatusOk, Throws(Boom)}

\* a caller that sends its next request when the one before is over
Await(params) == pending = <<>> /\ Request(params)

BodyNext ==
  \/ \E pattern \in BodyPatterns : Add(pattern)
  \/ \E params \in BodyRequests : Await(params)
  \/ \E returned \in BodyPayloads : PrepareResponse(returned)
  \/ \E i \in 1..MaxPending, returned \in BodyPayloads : Gunzip(i, returned)
  \/ \E i \in 1..MaxPending : StreamData(i)
  \/ \E i \in 1..MaxPending, returned \in BodyPayloads : StreamEnd(i, returned)
  \/ \E i \in 1..MaxPending, returned \in BodyPayloads : StreamError(i, returned)

BodySpec == Init /\ [][BodyNext]_vars

(* -------------------------- payloads without text ---------------------- *)

\* one pattern, requests that match it and that do not, and resolvers that
\* return an object, an object that holds itself, or nothing
SynthPatterns == {Req("GET", PathA, undefined, undefined)}
SynthRequests == {Raw("GET", PathA, <<>>, undefined), Raw("GET", PathB, <<>>, undefined)}
SynthPayloads == {StatusOk, TextOk, Cyclic, undefined}

SynthNext ==
  \/ \E pattern \in SynthPatterns : Add(pattern)
  \/ ClearAll
  \/ \E params \in SynthRequests : Request(params)
  \/ \E returned \in SynthPayloads : PrepareResponse(returned)

SynthSpec == Init /\ [][SynthNext]_vars

(* ------------------------ matching properties ------------------------- *)

\* the store that get scans for a request (empty when no route serves it)
Bucket(params) ==
  LET handler == find(kRouter, params.method, DecodePath(params.path))
  IN IF handler = NoRoute THEN <<>> ELSE kRouter[handler]

\* the number of fields a pattern declares among method, path, body, querystring
Specificity(p) ==
  2 + (IF p.body = undefined THEN 0 ELSE 1)
    + (IF p.querystring = undefined THEN 0 ELSE 1)

Unconstrained(p) == p.body = undefined /\ p.querystring = undefined
BodyOnly(p) == p.body # undefined /\ p.querystring = undefined

\* the request satisfies every constraint the pattern declares
Satisfies(params, p) ==
  /\ p.body # undefined => params.body = p.body
  /\ p.querystring # undefined => params.querystring = p.querystring

\* C1: when the route of a request holds exactly a body-constrained pattern
\* and an unconstrained one, in either registration order, get returns the
\* constrained pattern's resolver for a request whose body equals the
\* constraint and the unconstrained pattern's resolver for any other body.
C1_Granularity ==
  last.op = "get" =>
    LET s == Bucket(last.params)
    IN \A i, j \in DOMAIN s :
         (Len(s) = 2 /\ BodyOnly(s[i]) /\ Unconstrained(s[j])) =>
           last.ret = IF last.params.body = s[i].body THEN s[i].fn ELSE s[j].fn

\* the unconstrained pattern was registered first, the request carries the
\* constrained body and got the constrained pattern's resolver
C1_Witness ==
  /\ last.op = "get"
  /\ LET s == Bucket(last.params)
     IN /\ Len(s) = 2
        /\ BodyOnly(s[1]) /\ Unconstrained(s[2])
        /\ s[2].fn < s[1].fn
        /\ last.params.body = s[1].body
        /\ last.ret = s[1].fn

\* C2: among the patterns of a route that all match a request, get returns
\* one of the highest specificity (both fields before one field before none),
\* whatever the order in which the patterns were added.
C2_SpecificityOrder ==
  last.op = "get" =>
    LET s == Bucket(last.params)
        acc == {i \in DOMAIN s : Satisfies(last.params, s[i])}
    IN acc # {} =>
         \E i \in acc :
           /\ last.ret = s[i].fn
           /\ \A j \in acc : Specificity(s[i]) >= Specificity(s[j])

\* three matching patterns of specificity 2, 3 (querystring only) and 4 were
\* added least specific first and the request got the most specific one
C2_Witness ==
  /\ last.op = "get"
  /\ LET s == Bucket(last.params)
     IN /\ Len(s) = 3
        /\ \A i \in DOMAIN s : Satisfies(last.params, s[i])
        /\ Specificity(s[1]) = 4 /\ s[1].fn = 3
        /\ Specificity(s[2]) = 3 /\ s[2].body = undefined /\ s[2].fn = 2
        /\ Specificity(s[3]) = 2 /\ s[3].fn = 1
        /\ last.ret = 3

\* C3: patterns of equal specificity stay in insertion order in their route
\* after every add, and when several of them match a request get does not
\* return a later one in place of an earlier one.
C3_StableTies ==
  /\ \A k \in DOMAIN kRouter :
       \A i, j \in DOMAIN kRouter[k] :
         (i < j /\ Specificity(kRouter[k][i]) = Specificity(kRouter[k][j]))
           => kRouter[k][i].fn < kRouter[k][j].fn
  /\ last.op = "get" =>
       LET s == Bucket(last.params)
       IN \A i, j \in DOMAIN s :
            (/\ Specificity(s[i]) = Specificity(s[j])
             /\ Satisfies(last.params, s[i]) /\ Satisfies(last.params, s[j])
             /\ s[i].fn < s[j].fn) => last.ret # s[j].fn

\* two registrations with identical body and querystring, then a later add of
\* another pattern to the same route; the request matches both and got the first
C3_Witness ==
  /\ last.op = "get"
  /\ LET s == Bucket(last.params)
     IN /\ Len(s) = 3
        /\ \E i, j \in DOMAIN s :
             /\ s[i].fn = 1 /\ s[j].fn = 2
             /\ s[i].body = s[j].body /\ s[i].querystring = s[j].querystring
             /\ s[i].querystring # undefined
             /\ Satisfies(last.params, s[i])
        /\ last.ret = 1

\* two query maps have the same keys and the same value under every key
SameMap(a, b) ==
  /\ a.t = "object" /\ b.t = "object"
  /\ DOMAIN a.v = DOMAIN b.v
  /\ \A k \in DOMAIN a.v : a.v[k] = b.v[k]

\* C4: when no pattern of the route of a request has its constraints
\* satisfied, get returns null and the response status is 404, whether the
\* route exists (with constrained patterns only) or not.
C4_RouteExistsNoMatch ==
  last.op = "get" =>
    LET s == Bucket(last.params)
    IN (\A i \in DOMAIN s : ~Satisfies(last.params, s[i])) =>
         /\ last.ret = NoFn
         /\ statusCode(last.ret) = 404

\* the route holds two querystring-only patterns, the request satisfies
\* neither and got null
C4_Witness ==
  /\ last.op = "get"
  /\ LET s == Bucket(last.params)
     IN /\ Len(s) = 2
        /\ \A i \in DOMAIN s :
             /\ s[i].body = undefined /\ s[i].querystring # undefined
             /\ s[i].querystring # last.params.querystring
        /\ s[1].querystring # s[2].querystring
  /\ last.ret = NoFn

\* C5: the resolver of a pattern that declares a querystring is returned
\* only for a request whose query map has exactly the same keys and values.
C5_ExactQuerystring ==
  last.op = "get" =>
    LET s == Bucket(last.params)
    IN \A i \in DOMAIN s :
         (s[i].fn = last.ret /\ s[i].querystring # undefined) =>
           SameMap(last.params.querystring, s[i].querystring)

\* the only pattern of the route declares one query key, the request carries
\* that key and an extra one, and the pattern's resolver was not returned
C5_Witness ==
  /\ last.op = "get"
  /\ LET s == Bucket(last.params)
     IN /\ Len(s) = 1
        /\ s[1].body = undefined
        /\ s[1].querystring = QsPretty
        /\ last.params.querystring = QsPrettyHuman
        /\ last.ret # s[1].fn

\* C6: when the route of a request holds a pattern of the request's method
\* and path that declares neither body nor querystring, and no pattern of the
\* route that declares one is satisfied, get returns the resolver of such an
\* unconstrained pattern, whatever the request's body and query map.
C6_UnconstrainedFallback ==
  last.op = "get" =>
    LET s == Bucket(last.params)
        unc == {i \in DOMAIN s :
                  /\ Unconstrained(s[i])
                  /\ s[i].method = last.params.method
                  /\ s[i].path = DecodePath(last.params.path)}
    IN (/\ unc # {}
        /\ \A i \in DOMAIN s : ~Unconstrained(s[i]) => ~Satisfies(last.params, s[i]))
         => \E i \in unc : last.ret = s[i].fn

\* a request with a body and a query map that no constrained pattern of the
\* route declares got the resolver of the unconstrained pattern
C6_Witness ==
  /\ last.op = "get"
  /\ last.params.body = BodyBar
  /\ last.params.querystring = QsPrettyFalse
  /\ LET s == Bucket(last.params)
     IN /\ Len(s) = 3
        /\ ~Unconstrained(s[1]) /\ ~Unconstrained(s[2])
        /\ Unconstrained(s[3])
        /\ last.ret = s[3].fn

(* -------------------------- path properties --------------------------- *)

\* every pattern of the registry with the key of the route that stores it
Stored ==
  {ki \in (DOMAIN kRouter) \X (1..MaxAdds) : ki[2] <= Len(kRouter[ki[1]])}
PatternAt(ki) == kRouter[ki[1]][ki[2]]

\* a path without its trailing slash
StripSlash(path) ==
  IF Len(path) > 1 /\ path[Len(path)] = "/"
  THEN [i \in 1..(Len(path) - 1) |-> path[i]]
  ELSE path

\* a path with every escaped comma written as a comma
Unescape(path) == [i \in DOMAIN path |-> IF path[i] = "%2C" THEN "," ELSE path[i]]

\* the path of a request as the router compares it
Concrete(path) == StripSlash(Unescape(path))

\* a path made of exactly one non-empty segment
OneSegment(path) ==
  /\ Len(path) >= 2
  /\ path[1] = "/"
  /\ \A i \in 2..Len(path) : path[i] # "/"

\* a path template made of one named parameter
ParamTemplate(path) == Len(path) = 2 /\ path[1] = "/" /\ path[2] \in {":p", ":q"}

\* a literal route of the method is registered for exactly this path
LiteralRoute(method, path) == <<method, path>> \in DOMAIN kRouter

\* a route of the method other than the wildcard serves the path
NamedRoute(method, path) ==
  \/ LiteralRoute(method, path)
  \/ OneSegment(path) /\ \E k \in DOMAIN kRouter : k[1] = method /\ ParamTemplate(k[2])

\* the request paths of one segment
OneSegmentPaths == {PathA, PathASlash, PathB, PathComma, PathEncoded}

\* C7: a stored pattern whose path is a named parameter serves every request
\* of its method whose path is one concrete segment with no literal route of
\* its own: the request is answered from the route that stores the pattern,
\* a request that satisfies the pattern gets a resolver, and the resolver is
\* the same for every other such segment value.
C7_NamedParameter ==
  last.op = "get" =>
    LET path == Concrete(last.params.path)
    IN \A ki \in Stored :
         (/\ PatternAt(ki).method = last.params.method
          /\ ParamTemplate(PatternAt(ki).path)
          /\ OneSegment(path)
          /\ ~LiteralRoute(last.params.method, path)) =>
            /\ Bucket(last.params) = kRouter[ki[1]]
            /\ Satisfies(last.params, PatternAt(ki)) => last.ret # NoFn
            /\ \A other \in OneSegmentPaths :
                 ~LiteralRoute(last.params.method, Concrete(other)) =>
                   get(kRouter, [last.params EXCEPT !.path = other]) = last.ret

\* the registry holds one parametric pattern only and a request to the
\* segment "b" got its resolver
C7_Witness ==
  /\ last.op = "get"
  /\ last.params.path = PathB
  /\ DOMAIN kRouter = {<<last.params.method, PathParam>>}
  /\ Len(kRouter[<<last.params.method, PathParam>>]) = 1
  /\ last.ret = kRouter[<<last.params.method, PathParam>>][1].fn

\* C8: a stored pattern whose path is the wildcard serves every request path
\* of its method that no literal or parametric route of that method serves:
\* the request is answered from the route that stores the pattern, and a
\* request that satisfies the pattern gets a resolver.
C8_Wildcard ==
  last.op = "get" =>
    \A ki \in Stored :
      (/\ PatternAt(ki).method = last.params.method
       /\ PatternAt(ki).path = PathStar
       /\ ~NamedRoute(last.params.method, Concrete(last.params.path))) =>
         /\ Bucket(last.params) = kRouter[ki[1]]
         /\ Satisfies(last.params, PatternAt(ki)) => last.ret # NoFn

\* a wildcard is registered for HEAD next to a GET route, and a HEAD request
\* to a path with an escaped comma got the wildcard's resolver
C8_Witness ==
  /\ last.op = "get"
  /\ last.params.method = "HEAD"
  /\ last.params.path = PathEncoded
  /\ DOMAIN kRouter = {<<"HEAD", PathStar>>, <<"GET", PathA>>}
  /\ Len(kRouter[<<"HEAD", PathStar>>]) = 1
  /\ last.ret = kRouter[<<"HEAD", PathStar>>][1].fn

\* C9: patterns of one method whose paths differ only by a trailing slash
\* are stored in the same route, and a request is answered from the route
\* that stores a pattern whose path equals the request path up to a
\* trailing slash; get gives the same answer with and without the slash.
C9_TrailingSlash ==
  /\ \A ki, kj \in Stored :
       (/\ PatternAt(ki).method = PatternAt(kj).method
        /\ StripSlash(PatternAt(ki).path) = StripSlash(PatternAt(kj).path))
         => ki[1] = kj[1]
  /\ last.op = "get" =>
       /\ \A ki \in Stored :
            (/\ PatternAt(ki).method = last.params.method
             /\ StripSlash(PatternAt(ki).path) = Concrete(last.params.path))
              => Bucket(last.params) = kRouter[ki[1]]
       /\ last.params.path = PathA =>
            get(kRouter, [last.params EXCEPT !.path = PathASlash]) = last.ret
       /\ last.params.path = PathASlash =>
            get(kRouter, [last.params EXCEPT !.path = PathA]) = last.ret

\* one pattern was added under "/a/" and one under "/a"; both sit in one
\* route and a request to "/a" got the resolver of the pattern added under "/a/"
C9_Witness ==
  /\ last.op = "get"
  /\ last.params.path = PathA
  /\ DOMAIN kRouter = {<<last.params.method, PathA>>}
  /\ LET s == kRouter[<<last.params.method, PathA>>]
     IN /\ Len(s) = 2
        /\ s[1].path = PathASlash /\ s[2].path = PathA
        /\ Unconstrained(s[1])
        /\ last.ret = s[1].fn

\* C10: right after a pattern is added under a path with a comma, written
\* literally or as %2C, a request to that path is answered from the route
\* that stores the new pattern whether the request writes the comma
\* literally or as %2C, and get gives the same answer for both request forms.
C10_PercentDecoding ==
  /\ (last.op = "add" /\ last.params.path \in {PathComma, PathEncoded}) =>
       \A form \in {PathComma, PathEncoded} :
         LET s == Bucket([last.params EXCEPT !.path = form])
         IN /\ \E i \in DOMAIN s : s[i].fn = fnCount
            /\ get(kRouter, Req(last.params.method, form, null, QsEmpty))
                 = get(kRouter, Req(last.params.method, PathComma, null, QsEmpty))
  /\ (last.op = "get" /\ last.params.path = PathComma) =>
       get(kRouter, [last.params EXCEPT !.path = PathEncoded]) = last.ret
  /\ (last.op = "get" /\ last.params.path = PathEncoded) =>
       get(kRouter, [last.params EXCEPT !.path = PathComma]) = last.ret

\* a pattern was just added under the %2C form as the only pattern of the
\* registry and a request with the literal comma resolves to it
C10_Witness ==
  /\ last.op = "add"
  /\ last.params.path = PathEncoded
  /\ Cardinality(DOMAIN kRouter) = 1
  /\ get(kRouter, Req(last.params.method, PathComma, null, QsEmpty)) = fnCount
  /\ get(kRouter, Req(last.params.method, PathEncoded, null, QsEmpty)) = fnCount

(* -------------------------- call properties --------------------------- *)

\* the strings an argument stands for: itself, or the elements of its array
Values(v) ==
  IF v.t = "array" THEN {v.a[i].s : i \in DOMAIN v.a}
  ELSE IF v.t = "string" THEN {v.s}
  ELSE {}

\* an argument is a string or an array of strings
Defined(v) ==
  \/ v.t = "string"
  \/ v.t = "array" /\ v.a # <<>> /\ \A i \in DOMAIN v.a : v.a[i].t = "string"

\* C11: after a successful add whose method and/or path is an array, every
\* pair of a method and a path of the arrays has the pattern, with the
\* resolver of the call, in the route that serves the pair, and a request
\* to the pair gets that resolver unless a pattern registered by an earlier
\* call in the same route matches it.
C11_ArrayExpansion ==
  (/\ last.op = "add" /\ last.error = NoError
   /\ (last.params.method.t = "array" \/ last.params.path.t = "array")) =>
    \A m \in Values(last.params.method), p \in Values(last.params.path) :
      LET request == Req(m, p, null, QsEmpty)
          s == Bucket(request)
      IN /\ \E i \in DOMAIN s :
              /\ s[i].fn = last.ret
              /\ s[i].method = m /\ s[i].path = p
              /\ s[i].body = last.params.body
              /\ s[i].querystring = last.params.querystring
         /\ (\A i \in DOMAIN s : s[i].fn # last.ret => ~Satisfies(request, s[i]))
              => get(kRouter, request) = last.ret

\* one call with two methods and two paths on an empty registry: the four
\* requests resolve to the resolver of that call
C11_Witness ==
  /\ last.op = "add" /\ last.error = NoError
  /\ last.params.method = GetHead /\ last.params.path = PathsAB
  /\ Cardinality(DOMAIN kRouter) = 4
  /\ \A m \in {"GET", "HEAD"}, p \in {PathA, PathB} :
       get(kRouter, Req(m, p, null, QsEmpty)) = last.ret

\* the error add is expected to throw: the first defect in the order
\* method, path, resolver
ExpectedAddError(pattern, fn) ==
  IF ~Defined(pattern.method) THEN "The method is not defined"
  ELSE IF ~Defined(pattern.path) THEN "The path is not defined"
  ELSE IF fn <= 0 THEN "The resolver function is not defined"
  ELSE "none"

\* C12: add throws 'The method is not defined' for a method that is not a
\* string, else 'The path is not defined' for a path that is not a string,
\* else 'The resolver function is not defined' for a resolver that is not a
\* function, and nothing otherwise (arrays of strings standing for strings).
C12_AddErrors ==
  last.op = "add" => last.error = ExpectedAddError(last.params, last.ret)

\* a call without method, path and resolver reported the method
C12_Witness ==
  /\ last.op = "add"
  /\ last.params.method = undefined /\ last.params.path = undefined
  /\ last.ret = NoFn
  /\ last.error = "The method is not defined"

\* the error get and clear are expected to throw; get takes no array
ExpectedLookupError(op, pattern) ==
  IF op = "get" /\ pattern.method.t # "string" THEN "The method is not defined"
  ELSE IF op = "get" /\ pattern.path.t # "string" THEN "The path is not defined"
  ELSE IF ~Defined(pattern.method) THEN "The method is not defined"
  ELSE IF ~Defined(pattern.path) THEN "The path is not defined"
  ELSE "none"

\* C13: get and clear throw 'The method is not defined' for a method that is
\* not a string, else 'The path is not defined' for a path that is not a
\* string, and nothing otherwise; no resolver is involved.
C13_LookupErrors ==
  last.op \in {"get", "clear"} =>
    last.error = ExpectedLookupError(last.op, last.params)

\* a clear without method and path reported the method
C13_Witness ==
  /\ last.op = "clear"
  /\ last.params.method = undefined /\ last.params.path = undefined
  /\ last.error = "The method is not defined"

(* -------------------------- clear properties --------------------------- *)

\* the bodies a request can carry
RequestBodies == {null, BodyFoo}

\* the requests to the method and the path of a pattern
RequestsTo(pattern) ==
  {Req(pattern.method, pattern.path, b, QsEmpty) : b \in RequestBodies}

\* a pattern with the method and the path of this one is in the registry
RegisteredUnder(router, pattern) ==
  \E k \in DOMAIN router : \E i \in DOMAIN router[k] :
    /\ router[k][i].method = pattern.method
    /\ router[k][i].path = Unescape(pattern.path)

\* the stored pattern that resolves a request (its resolver is fn)
ResolvedBy(router, params, fn) ==
  LET handler == find(router, params.method, DecodePath(params.path))
      i == CHOOSE i \in DOMAIN router[handler] : router[handler][i].fn = fn
  IN router[handler][i]

\* C14: a clear whose method and path have patterns registered under them
\* removes the whole route, whatever body the cleared pattern or the stored
\* patterns carry: right after it every request to that method and path
\* gets null from get and a 404 status.
C14_ClearRemovesRoute ==
  [][(/\ last'.op = "clear"
      /\ last'.error = NoError
      /\ RegisteredUnder(kRouter, Plain(last'.params)))
       => \A params \in RequestsTo(Plain(last'.params)) :
            /\ get(kRouter', params) = NoFn
            /\ statusCode(get(kRouter', params)) = 404]_vars

\* C15: a clear for one method and path leaves every pattern registered
\* under another method or another path resolvable as before: a request
\* that such a pattern resolved before the call gets the same resolver
\* after it.
C15_ClearLeavesOthers ==
  [][(last'.op = "clear" /\ last'.error = NoError)
       => \A params \in {Plain(r) : r \in ClearRequests} :
            LET fn == get(kRouter, params)
                target == Plain(last'.params)
            IN (/\ fn # NoFn
                /\ \/ ResolvedBy(kRouter, params, fn).method # target.method
                   \/ StripSlash(ResolvedBy(kRouter, params, fn).path)
                        # Concrete(target.path))
                 => get(kRouter', params) = fn]_vars

(* ------------------------ connection properties ------------------------ *)

\* requests of every method, path, body and query map of the model
AnyRequests ==
  {Req(m, p, b, q) : m \in {"GET", "HEAD"}, p \in {PathA, PathB},
                     b \in {null, BodyFoo}, q \in {QsEmpty, QsPretty}}

\* no request resolves to a resolver
NoMatch(router) == \A params \in AnyRequests : get(router, params) = NoFn

\* C16: clearAll leaves a registry in which get returns null for every
\* request; as long as no add is made it stays so, and every request the
\* connection resolves meanwhile is answered with status 404.
C16_ClearAllEmpties ==
  [][/\ last'.op = "clearAll" => NoMatch(kRouter')
     /\ (NoMatch(kRouter) /\ last'.op # "add") => NoMatch(kRouter')
     /\ (NoMatch(kRouter) /\ last'.op = "response" /\ last'.consulted)
          => last'.outcome = "response" /\ last'.statusCode = 404]_vars

C16_Witness ==
  /\ last.op = "clearAll"
  /\ fnCount > 0
  /\ pending # <<>>
  /\ NoMatch(kRouter)

\* C17: a step that resolves a request, through get or through the
\* connection, leaves the registry as it was, and the pattern that matched
\* resolves the same request again after the step.
C17_ResolvingKeepsRegistry ==
  [][last'.op \in {"get", "response"}
       => /\ kRouter' = kRouter
          /\ \A params \in AnyRequests :
               get(kRouter', params) = get(kRouter, params)
          /\ last'.ret # NoFn => get(kRouter', last'.params) = last'.ret]_vars

C17_Witness ==
  /\ last.op = "response"
  /\ last.ret # NoFn
  /\ get(kRouter, last.params) = last.ret
  /\ pending # <<>>

\* C18: when the registry was consulted for a request and no pattern
\* matched, the connection delivers a response with status 404 whose body is
\* the JSON text of exactly { error: 'Mock not found' }.
C18_NotFoundBody ==
  (last.op = "response" /\ last.consulted /\ last.ret = NoFn)
    => /\ last.outcome = "response"
       /\ last.statusCode = 404
       /\ last.contentType = "application/json;utf=8"
       /\ last.body = stringify(Obj([error |-> "Mock not found"]))

C20_ResponseErrorDelivered ==
  (/\ last.op = "response"
   /\ last.ret # NoFn
   /\ IsResponseError(last.returned))
    => /\ last.outcome = "response"
       /\ last.error = undefined
       /\ last.statusCode = last.returned.statusCode
       /\ last.body = IF IsString(last.returned.body) THEN last.returned.body
                      ELSE stringify(last.returned.body)

C20_Witness ==
  /\ last.op = "response"
  /\ last.ret # NoFn
  /\ last.returned = ServerError
  /\ last.outcome = "response"
  /\ last.statusCode = 500

\* C21: when the matched resolver returns a client error that is not a
\* ResponseError, the request is rejected with that same error object and no
\* response (no status code, no body) is produced.
C21_ClientErrorRejects ==
  (/\ last.op = "response"
   /\ last.ret # NoFn
   /\ IsClientError(last.returned)
   /\ ~IsResponseError(last.returned))
    => /\ last.outcome = "error"
       /\ last.error = last.returned
       /\ last.body = undefined
       /\ last.statusCode = 0
       /\ last.outcomes = 1

C21_Witness ==
  /\ last.op = "response"
  /\ last.ret # NoFn
  /\ last.returned = TimeoutError
  /\ last.outcome = "error"
  /\ last.error = TimeoutError

(* --------------------------- abort properties -------------------------- *)

C23_OneOutcome ==
  /\ \A i \in DOMAIN pending : pending[i].outcomes <= 1
  /\ last.op \in {"response", "normalize"} => last.outcomes <= 1

C23_Witness ==
  /\ last.op = "response"
  /\ last.again
  /\ last.outcome = "response"
  /\ last.outcomes = 1

(* ------------------------ properties: late lookup ---------------------- *)

\* C24: a request is answered from the registry as it is when prepareResponse
\* runs for it, whatever the registry held when request() was called: it gets
\* the 404 exactly when no pattern matches it now, and the resolver's payload
\* as a 200 otherwise.
C24_CurrentRegistry ==
  (last.op = "response" /\ last.consulted)
    => IF get(kRouter, last.params) = NoFn
       THEN last.outcome = "response" /\ last.statusCode = 404
       ELSE /\ last.outcome = "response"
            /\ last.statusCode = 200
            /\ last.body = stringify(last.returned)

\* a request sent when nothing matched it and answered by a pattern added
\* while it was in flight
C24_Witness ==
  /\ last.op = "response"
  /\ last.consulted
  /\ last.seen = NoFn
  /\ last.ret # NoFn
  /\ last.statusCode = 200

(* ----------------------- properties: request bodies -------------------- *)

\* the text a body carries, whatever its form: the bytes of a buffer, the
\* chunks of a stream joined, unzipped when the request says gzip
Bytes(b) == IF IsBuffer(b) THEN b.bytes ELSE b
Unzipped(b, gz) ==
  IF ~gz THEN Bytes(b)
  ELSE IF Bytes(b).t = "gzip" THEN Bytes(b).of
  ELSE Malformed
RECURSIVE Joined(_, _)
Joined(chunks, gz) ==
  IF chunks = <<>> THEN EmptyString
  ELSE concat(Unzipped(Head(chunks), gz), Joined(Tail(chunks), gz))
Content(raw) ==
  IF isStream(raw.body)
  THEN Joined(raw.body.chunks, raw.headers.encoding = "gzip")
  ELSE Unzipped(raw.body, raw.headers.encoding = "gzip")

\* the value of that text under the content type of the request
Expected(raw) ==
  IF raw.headers.type = NdJson THEN parseLines(Content(raw))
  ELSE parse(Content(raw))

\* the source of a streamed body fails
ReadError(raw) ==
  isStream(raw.body) /\ \E i \in DOMAIN raw.body.ending : raw.body.ending[i] = "error"

\* a body that reads, unzips and parses
WellFormed(raw) ==
  /\ ~Falsy(raw.body)
  /\ ~ReadError(raw)
  /\ ~IsThrown(Expected(raw))

\* a body that reads but does not unzip or does not parse
BadBody(raw) ==
  /\ ~Falsy(raw.body)
  /\ ~ReadError(raw)
  /\ IsThrown(Expected(raw))

\* C25: a request whose body reads, unzips and parses is normalized in
\* every form (string, buffer, gzip buffer, stream, gzip stream, one JSON
\* document or newline-delimited): request() does not throw, no callback
\* throws, and prepareResponse gets the value of the content as the body.
C25_SameBodyEveryForm ==
  /\ (last.op = "request" /\ WellFormed(last.raw)) => last.outcome = "pending"
  /\ (last.op = "normalize") => ~WellFormed(last.raw)
  /\ (last.op = "response" /\ WellFormed(last.raw))
       => last.failure = NoError /\ last.params.body = Expected(last.raw)

\* C26: the matched resolver is called with the method and the path of the
\* outgoing request, the map of its query string and its parsed body, null
\* for a request without a body.
C26_ResolverArguments ==
  (last.op = "response" /\ last.ret # NoFn)
    => last.args =
         [method |-> last.raw.method,
          path |-> last.raw.path,
          querystring |-> querystringParse(last.raw.querystring),
          body |-> IF Falsy(last.raw.body) THEN null ELSE Expected(last.raw)]

\* C27: a request whose streamed body fails while it is read, compressed or
\* not, is never left without an event to wait for and without an outcome,
\* and when prepareResponse runs for it the caller gets a ConnectionError
\* with the message of the stream's error.
C27_StreamErrorWrapped ==
  /\ \A i \in DOMAIN pending :
       ReadError(pending[i].raw)
         => pending[i].events # <<>> \/ pending[i].outcomes > 0
  /\ (last.op = "response" /\ ReadError(last.raw))
       => /\ last.outcome = "error"
          /\ last.error = [t |-> "ConnectionError", message |-> ReadFailed]

\* C28: a request whose body does not unzip or does not parse fails with a
\* ConnectionError: request() throws nothing else, no callback throws, and
\* prepareResponse rejects with a ConnectionError.
C28_BadBodyIsConnectionError ==
  /\ (last.op = "request" /\ BadBody(last.raw))
       => last.outcome = "pending" \/ last.error.t = "ConnectionError"
  /\ ~(last.op = "normalize" /\ BadBody(last.raw))
  /\ (last.op = "response" /\ BadBody(last.raw))
       => last.outcome = "error" /\ last.error.t = "ConnectionError"

\* C29: when the matched resolver throws, the request is rejected with the
\* error the resolver threw.
C29_ThrownErrorPropagates ==
  (last.op = "response" /\ last.ret # NoFn /\ last.returned.t = "throw")
    => last.outcome = "error" /\ last.error = last.returned.error

\* C30: every value of the query map of a normalized request is a string.
C30_FlatQueryMap ==
  \A i \in DOMAIN pending :
    \A k \in DOMAIN pending[i].params.querystring.v :
      IsString(pending[i].params.querystring.v[k])

(* ------------------------ properties: unknown api ---------------------- *)

\* a pattern that names an api the catalog does not hold
UnknownApi(pattern) ==
  pattern.api # undefined /\ pattern.api.s \notin DOMAIN pathsDb

C32_RoutesSorted ==
  \A k \in DOMAIN kRouter :
    \A i, j \in DOMAIN kRouter[k] :
      i < j => Specificity(kRouter[k][i]) >= Specificity(kRouter[k][j])

\* an add has just put the most specific pattern of a route in front of two
\* patterns registered before it, the least specific one first
C32_Witness ==
  /\ last.op = "add"
  /\ \E k \in DOMAIN kRouter :
       /\ Len(kRouter[k]) = 3
       /\ kRouter[k][1].fn = 3 /\ Specificity(kRouter[k][1]) = 4
       /\ kRouter[k][2].fn = 2 /\ Specificity(kRouter[k][2]) = 3
       /\ kRouter[k][3].fn = 1 /\ Specificity(kRouter[k][3]) = 2

(* --------------------- properties: abort and no work ------------------- *)

\* C33: a run of prepareResponse for a request whose signal was aborted
\* before it does not call mocker.get, calls no resolver and leaves the
\* registry as it was.
C33_NoWorkAfterAbort ==
  [][(last'.op = "response" /\ last'.aborted)
       => /\ ~last'.consulted
          /\ last'.ret = NoFn
          /\ last'.args = undefined
          /\ last'.returned = undefined
          /\ kRouter' = kRouter
          /\ fnCount' = fnCount]_vars

\* a request with a streamed body, aborted while the body was read, whose
\* 'end' found a pattern registered that matches it
C33_Witness ==
  /\ last.op = "response"
  /\ last.aborted
  /\ ~last.consulted
  /\ isStream(last.raw.body)
  /\ last.failure = NoError
  /\ get(kRouter, last.params) # NoFn

\* C34: whenever prepareResponse runs for an aborted request, with the
\* error of a failed normalization or with the normalized request, the
\* caller has exactly one outcome and what prepareResponse hands over is
\* RequestAbortedError, not a ConnectionError and not a response.
C34_AbortPrecedence ==
  (last.op = "response" /\ last.aborted)
    => /\ last.outcome # "response"
       /\ last.error.t # "ConnectionError"
       /\ last.error.t = "RequestAbortedError"
       /\ last.outcomes = 1

\* an aborted request whose body did not unzip: the first outcome of the
\* request is the abort
C34_Witness ==
  /\ last.op = "response"
  /\ last.aborted
  /\ ~last.again
  /\ last.failure = HeaderCheck
  /\ last.error.t = "RequestAbortedError"
  /\ last.outcomes = 1

(* ------------------------- properties: delivery ------------------------ *)

\* C35: no request in flight is left with no event to wait for and no
\* outcome delivered: once the last callback of a request has run, its
\* caller has a response or an error.
C35_EveryRequestSettles ==
  \A i \in DOMAIN pending :
    pending[i].events # <<>> \/ pending[i].outcomes > 0

(* ---------------------- properties: independence ----------------------- *)

\* a step touches at most one request in flight: it adds one, changes one,
\* or ends one, and leaves every other as it was
OneRequestPerStep ==
  \/ pending' = pending
  \/ /\ Len(pending') = Len(pending) + 1
     /\ \A j \in DOMAIN pending : pending'[j] = pending[j]
  \/ /\ Len(pending') = Len(pending)
     /\ \E i \in DOMAIN pending :
          \A j \in DOMAIN pending \ {i} : pending'[j] = pending[j]
  \/ \E i \in DOMAIN pending : pending' = Remove(pending, i)

\* the request prepareResponse resolves is the normalized form of the
\* request its own caller handed over
OwnParams ==
  (last.op = "response" /\ last.consulted)
    => /\ last.params.method = last.raw.method
       /\ last.params.path = last.raw.path
       /\ last.params.querystring = querystringParse(last.raw.querystring)
       /\ last.params.body =
            IF Falsy(last.raw.body) THEN null ELSE Expected(last.raw)

\* C36: an abort, a callback or a failure of one request in flight leaves
\* every other request in flight as it was (its abort flag, its pending
\* error, its body read so far, its outcome), and each request is resolved
\* with its own normalized parameters, in whatever order the callbacks of
\* the requests run.
C36_Independent == [][OneRequestPerStep /\ OwnParams']_vars

\* the second of two requests in flight is answered first, with its own
\* path, query and body, while the first, aborted, still waits
C36_Witness ==
  /\ last.op = "response"
  /\ last.consulted
  /\ last.params.path = PathB
  /\ last.params.body = BodyBar
  /\ Len(pending) = 1
  /\ pending[1].aborted
  /\ pending[1].outcomes = 0
  /\ pending[1].raw.path = PathA

(* -------------------------- bucket properties -------------------------- *)

\* the key of the route a pattern registers for itself: its method and its
\* path template
OwnKey(p) == <<p.method, StripSlash(p.path)>>

\* the request has the method of the pattern and a path that the pattern's
\* own template matches
OwnTemplateServes(p, params) ==
  /\ params.method = p.method
  /\ Matches(StripSlash(p.path), Concrete(params.path))

\* C37: every stored pattern sits in the bucket of its own method and path
\* template, and get returns a pattern's resolver only for a request whose
\* method is the pattern's and whose path matches the pattern's own
\* template, whatever covering template was registered before it.
C37_OwnBucket ==
  /\ \A ki \in Stored : ki[1] = OwnKey(PatternAt(ki))
  /\ (last.op = "get" /\ last.ret # NoFn) =>
       \A ki \in Stored :
         PatternAt(ki).fn = last.ret
           => OwnTemplateServes(PatternAt(ki), Plain(last.params))

\* the registry after two registrations, the first pattern with the first
\* resolver
AddBoth(router, p1, f1, p2, f2) == add(add(router, p1, f1), p2, f2)

\* the two patterns have the same method and different path templates
OtherTemplate(p1, p2) ==
  /\ p1.method = p2.method
  /\ StripSlash(DecodePath(p1.path)) # StripSlash(DecodePath(p2.path))

\* C38: registrations under different path templates commute: when an add
\* has registered a pattern, registering next a pattern of the same method
\* and another path template leaves a registry in which every request gets
\* from get what it gets when the two calls are made in the other order.
C38_AddsCommute ==
  [][(last'.op = "add" /\ last'.error = NoError)
       => \A c \in ClearPatterns :
            LET p1 == Plain(last'.params)
                f1 == last'.ret
                p2 == Plain(c)
                f2 == fnCount' + 1
            IN OtherTemplate(p1, p2)
                 => \A r \in ClearRequests :
                      get(add(kRouter', p2, f2), Plain(r))
                        = get(AddBoth(kRouter, p2, f2, p1, f1), Plain(r))]_vars

\* a registered pattern has the method of the request, a path template
\* that matches its path and constraints that the request satisfies
SomePatternFits(params) ==
  \E ki \in Stored :
    /\ OwnTemplateServes(PatternAt(ki), params)
    /\ Satisfies(params, PatternAt(ki))

\* C39 as stated: get returns null for a request only if no registered
\* pattern has the request's method, a path template that matches the
\* request path and constraints satisfied by the request.
C39_NullOnlyIfNothingFits ==
  (last.op = "get" /\ last.error = NoError /\ last.ret = NoFn)
    => ~SomePatternFits(Plain(last.params))

\* C39 as amended: get returns null for a request only if no pattern in the
\* store of the one route the router finds for the request's method and
\* path has its constraints satisfied by the request; the patterns of other
\* routes are not consulted, even when their templates match the path.
C39_NullOnlyIfRouteUnsatisfied ==
  (last.op = "get" /\ last.error = NoError /\ last.ret = NoFn)
    => LET params == Plain(last.params)
       IN \A i \in DOMAIN Bucket(params) :
            ~Satisfies(params, Bucket(params)[i])

\* get returned null from a route that holds patterns while a pattern of
\* another route fits the request
C39_Witness ==
  /\ last.op = "get"
  /\ last.error = NoError
  /\ last.ret = NoFn
  /\ Bucket(Plain(last.params)) # <<>>
  /\ SomePatternFits(Plain(last.params))

(* ------------------------- failure properties -------------------------- *)

\* C40: add and clear are atomic with respect to failure: a call that
\* throws ConfigurationError, for a scalar argument or for an array with an
\* invalid element after valid ones, leaves the registry exactly as it was
\* before the call.
C40_AtomicFailure ==
  [][(last'.op \in {"add", "clear"} /\ last'.error # NoError)
       => kRouter' = kRouter]_vars

====
